---------------------------- MODULE Spec2Model ----------------------------
(***************************************************************************)
(* A model of tuflow_ensemble (src/src/tuflow_ensemble/te.py): the run     *)
(* identity parser, the result file normalizer, the peak extractor, the    *)
(* ensemble aggregator, the storm-space analyzer, the critical-storm       *)
(* summarizer and the batch driver main().                                 *)
(*                                                                         *)
(* Text is modelled as a sequence of one-character strings, so that the    *)
(* regular expressions, substring tests and conversions of the code are    *)
(* computed character by character.  A numeric value that may be missing   *)
(* (NaN) is a sequence of length at most one: << >> is NaN, <<v>> is v.    *)
(* A rational (mean, median) is a pair <<numerator, denominator>>.         *)
(***************************************************************************)
EXTENDS Integers, Sequences, FiniteSets, TLC

VARIABLES
    pc,             \* position of the program under analysis
    run_id,         \* argument of _parse_run_id
    parsed,         \* outcome of _parse_run_id
    csv_file,       \* argument of parse_po_csv: [name, rows]
    table,          \* outcome of parse_po_csv
    listing,        \* os.listdir(input_dir): the files of the input folder
    raw_inputs,     \* main: raw_inputs
    saved_inputs,   \* main: saved_inputs
    all_max_flows,  \* main: all_max_flows
    df1,            \* main: df1 after concat_po_srs (the EnsembleTable)
    all_crit,       \* main: all_crit (the StormGrids)
    results_sr,     \* main: results_sr (the summaries)
    log_file,       \* main: log_file, the entries logged so far
    results_file,   \* main: results_file, the entries logged so far
    written,        \* the output files written by write_to_txt
    status,         \* main: status
    new_row         \* outcome of _get_all_max_flows

vars == <<pc, run_id, parsed, csv_file, table, listing, raw_inputs, saved_inputs,
          all_max_flows, df1, all_crit, results_sr, log_file, results_file,
          written, status, new_row>>

-----------------------------------------------------------------------------
(* Bounds of the model.                                                    *)

\* longest name enumerated for _parse_run_id
MaxNameLen == 6
\* most files in the input folder of a batch run
MaxFiles == 3
\* most junk rows above the header row of an enumerated raw result file
MaxJunk == 2
\* most rows below the header row of an enumerated raw result file
MaxData == 2
\* widest first row of an enumerated raw result file
MaxWidth == 4
\* largest peak flow of an enumerated ensemble table
MaxFlow == 3

-----------------------------------------------------------------------------
(* Text.                                                                   *)

\* F applied to the value of v, which is computed once
With(v, F(_)) == CHOOSE r \in {F(x) : x \in {v}} : TRUE

Min(S) == CHOOSE x \in S : \A y \in S : x <= y

Max(S) == CHOOSE x \in S : \A y \in S : y <= x

Range(s) == {s[i] : i \in 1..Len(s)}

\* The characters of the model in ASCII order (the order str comparison uses).
Ascii == <<" ", "-", ".", "0", "1", "2", "3", "4", "5", "6", "7", "8", "9", ":",
           "A", "B", "C", "D", "E", "F", "G", "H", "I", "J", "K", "L", "M",
           "N", "O", "P", "Q", "R", "S", "T", "U", "V", "W", "X", "Y", "Z",
           "_",
           "a", "b", "c", "d", "e", "f", "g", "h", "i", "j", "k", "l", "m",
           "n", "o", "p", "q", "r", "s", "t", "u", "v", "w", "x", "y", "z">>

Ord(c) == CHOOSE i \in 1..Len(Ascii) : Ascii[i] = c

Digits == {"0", "1", "2", "3", "4", "5", "6", "7", "8", "9"}

UpperCase == {Ascii[i] : i \in 15..40}

Letters == UpperCase \cup {Ascii[i] : i \in 42..67}

\* str.lower() on one character: 'A'..'Z' map to 'a'..'z', 27 places later.
lower_char(c) == IF c \in UpperCase THEN Ascii[Ord(c) + 27] ELSE c

\* str.lower()
lower(s) == [i \in 1..Len(s) |-> lower_char(s[i])]

\* `sub in s` for two strings
Contains(s, sub) ==
    \E i \in 1..(Len(s) - Len(sub) + 1) : SubSeq(s, i, i + Len(sub) - 1) = sub

\* str < str (lexicographic on code points)
StrLess(a, b) ==
    \E k \in 1..(Len(b)) :
        /\ k <= Len(a) + 1
        /\ SubSeq(a, 1, k - 1) = SubSeq(b, 1, k - 1)
        /\ IF k = Len(a) + 1 THEN TRUE ELSE Ord(a[k]) < Ord(b[k])

DigitVal(c) == Ord(c) - Ord("0")

\* int(s) for a string; << >> when int() raises ValueError
RECURSIVE DigitsToInt(_)
DigitsToInt(s) ==
    IF Len(s) = 0 THEN 0
    ELSE 10 * DigitsToInt(SubSeq(s, 1, Len(s) - 1)) + DigitVal(s[Len(s)])

int(s) == IF Len(s) > 0 /\ Range(s) \subseteq Digits THEN <<DigitsToInt(s)>> ELSE << >>

\* str(n) for a natural number
RECURSIVE str(_)
str(n) == IF n < 10 THEN <<Ascii[Ord("0") + n]>>
          ELSE str(n \div 10) \o <<Ascii[Ord("0") + (n % 10)]>>

-----------------------------------------------------------------------------
(* Run Identity Parser: _parse_run_id.                                     *)

\* re.search(r"_.*?_", s): the leftmost match, lazily extended; << >> is None
re_search_storm(s) ==
    LET starts == {i \in 1..Len(s) :
                     s[i] = "_" /\ \E j \in (i + 1)..Len(s) : s[j] = "_"}
    IN  IF starts = {} THEN << >>
        ELSE LET i == Min(starts)
                 j == Min({k \in (i + 1)..Len(s) : s[k] = "_"})
             IN  <<SubSeq(s, i, j)>>

\* re.search(r"\d{1,4}m", s): the leftmost match, greedy in the digits
re_search_duration(s) ==
    LET m(i, k) == /\ i + k <= Len(s)
                   /\ \A d \in i..(i + k - 1) : s[d] \in Digits
                   /\ s[i + k] = "m"
        starts == {i \in 1..Len(s) : \E k \in 1..4 : m(i, k)}
    IN  IF starts = {} THEN << >>
        ELSE LET i == Min(starts)
                 k == Max({n \in 1..4 : m(i, n)})
             IN  <<SubSeq(s, i, i + k)>>

\* re.search(r"tp\d*", s): the leftmost match, greedy in the digits
re_search_tp(s) ==
    LET starts == {i \in 1..(Len(s) - 1) : s[i] = "t" /\ s[i + 1] = "p"}
    IN  IF starts = {} THEN << >>
        ELSE LET i == Min(starts)
                 e == Max({n \in (i + 1)..Len(s) :
                             \A d \in (i + 2)..n : s[d] \in Digits})
             IN  <<SubSeq(s, i, e)>>

\* str.replace("_", "")
strip_underscores(s) == SelectSeq(s, LAMBDA c : c # "_")

\* _parse_run_id: .group() on None raises AttributeError
parse_run_id(name) ==
    LET run_id_l == lower(name)
        st == re_search_storm(run_id_l)
        du == re_search_duration(run_id_l)
        tp == re_search_tp(run_id_l)
    IN  IF st = << >> \/ du = << >> \/ tp = << >>
        THEN [raised |-> TRUE, storm |-> << >>, duration |-> << >>, temp_patt |-> << >>]
        ELSE [raised |-> FALSE, storm |-> strip_underscores(st[1]),
              duration |-> du[1], temp_patt |-> tp[1]]

NoParse == [raised |-> FALSE, storm |-> << >>, duration |-> << >>, temp_patt |-> << >>]

\* test.py: the name of test_parse_storm_name
ExampleName ==
    <<"E", "x", "a", "m", "p", "l", "e", "-", "C", "a", "t", "c", "h", "m", "e", "n", "t",
      "_", "0", ".", "5", "E", "Y", "_", "3", "6", "0", "m", "_", "t", "p", "0", "7",
      "_", "n", "o", "-", "b", "l", "o", "c", "k", "a", "g", "e", "s",
      "_", "0", "0", "1", "_", "P", "O", ".", "c", "s", "v">>

\* the characters of the enumerated names: every character class the three
\* patterns tell apart, in both cases
NameAlphabet == {"_", "1", "M", "t", "p"}

NameInputs ==
    UNION {[1..n -> NameAlphabet] : n \in 0..MaxNameLen} \cup {ExampleName}

-----------------------------------------------------------------------------
(* Result File Normalizer: _header_length, _header_col, parse_po_csv.      *)
(* A csv file is [name, rows]: its basename and the rows csv.reader yields *)
(* (a blank line is the empty row).  A call's outcome is a record whose    *)
(* field kind is "ok", "raise" (an Exception) or "exit" (SystemExit).      *)

sFlow == <<"F", "l", "o", "w">>

sTime == <<"T", "i", "m", "e">>

sVel == <<"V", "e", "l">>

sLoc == <<"L", "o", "c">>

\* _header_length: next(reader) raises StopIteration on a file without rows
header_length(f) ==
    IF Len(f.rows) = 0 THEN [kind |-> "raise", v |-> 0]
    ELSE [kind |-> "ok", v |-> Len(f.rows[1])]

\* _header_col: the first row with a field equal to "Flow", 0-based;
\* header_row[0] raises IndexError when there is none
header_col(f) ==
    With({i \in 1..Len(f.rows) : sFlow \in Range(f.rows[i])}, LAMBDA header_row :
        IF header_row = {} THEN [kind |-> "raise", v |-> 0]
        ELSE [kind |-> "ok", v |-> Min(header_row) - 1])

\* pd.read_csv(path, usecols=range(0, n), header=None): blank lines are
\* skipped, a file without a line to parse raises EmptyDataError ("empty");
\* the frame keeps the first n fields of every row, labelled 0..n-1, and its
\* rows are labelled 0, 1, ...
read_csv(f, n) ==
    With(SelectSeq(f.rows, LAMBDA r : Len(r) > 0), LAMBDA lines :
        IF Len(lines) = 0 THEN [kind |-> "empty", rows |-> << >>]
        ELSE [kind |-> "ok",
              rows |-> [i \in 1..Len(lines) |->
                          SubSeq(lines[i], 1, IF n < 0 THEN 0 ELSE n)]])

\* df.drop(index=head_col): the row labelled head_col goes, no other
drop_index(rows, head_col) ==
    SubSeq(rows, 1, head_col) \o SubSeq(rows, head_col + 2, Len(rows))

\* the positions of a row that df.drop(label, axis=1) keeps
keep_cols(columns, label) == {i \in 1..Len(columns) : columns[i] # label}

\* a row restricted to the positions in keep, in order
pick(row, keep) ==
    With(SelectSeq([i \in 1..Len(row) |-> i], LAMBDA i : i \in keep), LAMBDA at :
        [k \in 1..Len(at) |-> row[at[k]]])

NoTable == [name |-> << >>, columns |-> << >>, index |-> << >>, rows |-> << >>]

\* parse_po_csv, from the frame read and the header row found: the header
\* row becomes the labels and is dropped, the first column is dropped, the
\* next one becomes the index and the others are relabelled
clean_frame(name, rows, head_col) ==
    IF head_col >= Len(rows) THEN [kind |-> "raise", df |-> NoTable]
    ELSE
      With(rows[head_col + 1], LAMBDA labels :                 \* df.iloc[head_col]
      With(drop_index(rows, head_col), LAMBDA below :
      With(keep_cols(labels, labels[1]), LAMBDA keep :         \* drop(first_column)
      With(pick(labels, keep), LAMBDA cols1 :
      With([i \in 1..Len(below) |-> pick(below[i], keep)], LAMBDA rows1 :
          IF Len(cols1) = 0                                    \* df.columns[0]
          THEN [kind |-> "raise", df |-> NoTable]
          ELSE [kind |-> "ok",
                df |-> [name    |-> name,
                        \* set_index(df.columns[0])
                        index   |-> [i \in 1..Len(rows1) |-> rows1[i][1]],
                        \* f"{column}.{i}"
                        columns |-> [i \in 1..(Len(cols1) - 1) |->
                                       cols1[i + 1] \o <<".">> \o str(i - 1)],
                        rows    |-> [i \in 1..Len(rows1) |-> Tail(rows1[i])]]])))))

\* parse_po_csv
parse_po_csv(f) ==
    With(header_length(f), LAMBDA hl :
        IF hl.kind = "raise" THEN [kind |-> "raise", df |-> NoTable]
        ELSE
          With(read_csv(f, hl.v), LAMBDA rd :
          With(header_col(f), LAMBDA hc :
              IF rd.kind = "empty" THEN [kind |-> "exit", df |-> NoTable]
              ELSE IF hc.kind = "raise" THEN [kind |-> "raise", df |-> NoTable]
              ELSE clean_frame(f.name, rd.rows, hc.v))))

\* The raw result files enumerated for parse_po_csv: junk rows, then a
\* header row <<label, "Time", types...>> with at least one "Flow", then a
\* row per entry of body; every row has as many fields as the header row.
sRun == <<"r">>

sJunk == <<"x">>

BodyCells == {sLoc, <<"3">>, <<"7">>}

HeaderTypes == {sFlow, sVel}

RawFile(w, h, types, body) ==
    [name |-> <<"r">>,
     rows |-> [i \in 1..h |-> [j \in 1..w |-> sJunk]]
              \o << <<sRun, sTime>> \o types >>
              \o [i \in 1..Len(body) |-> <<sRun, <<"t">> >> \o [j \in 1..(w - 2) |-> body[i]]]]

RawFiles ==
    {RawFile(Len(types) + 2, h, types, body) :
        h \in 0..MaxJunk,
        types \in {t \in UNION {[1..n -> HeaderTypes] : n \in 1..(MaxWidth - 2)} :
                     sFlow \in Range(t)},
        body \in UNION {[1..n -> BodyCells] : n \in 0..MaxData}}

NoFile == [name |-> << >>, rows |-> << >>]

-----------------------------------------------------------------------------
(* Peak Extractor: _get_po_lines, _get_all_max_flows.                      *)

sMaxFlow == <<"M", "a", "x", " ", "F", "l", "o", "w">>

sNA == <<"N", "A">>

\* the positions of the columns of a table whose label contains "Flow"
flow_columns(df) == SelectSeq([i \in 1..Len(df.columns) |-> i],
                              LAMBDA i : Contains(df.columns[i], sFlow))

\* pd.to_numeric(cell, errors="coerce") for a cell read as text
to_numeric(cell) == int(cell)

\* a variant of column_max in which a cell that is no number counts as 0
column_max_text_as_zero(df, i) ==
    With({IF to_numeric(df.rows[r][i]) = << >> THEN 0 ELSE to_numeric(df.rows[r][i])[1] :
            r \in 1..Len(df.rows)},
         LAMBDA nums : IF nums = {} THEN << >> ELSE <<Max(nums)>>)

\* pd.to_numeric(po_sr[column], errors="coerce").max(): the largest of the
\* numeric cells of column i, NaN when there is none
column_max(df, i) ==
    With({to_numeric(df.rows[r][i])[1] :
            r \in {q \in 1..Len(df.rows) : to_numeric(df.rows[q][i]) # << >>}},
         LAMBDA nums : IF nums = {} THEN << >> ELSE <<Max(nums)>>)

NoSeries == [name |-> << >>, event |-> << >>, duration |-> << >>, tp |-> << >>,
             cols |-> << >>, vals |-> << >>]

\* _get_po_lines: the first cell of each "Flow" column, po_df[column][0],
\* which raises on a table without rows
get_po_lines(po_df) ==
    With(flow_columns(po_df), LAMBDA fc :
        IF Len(fc) > 0 /\ Len(po_df.rows) = 0 THEN [kind |-> "raise", v |-> << >>]
        ELSE [kind |-> "ok", v |-> [k \in 1..Len(fc) |-> po_df.rows[1][fc[k]]]])

\* _get_all_max_flows: _parse_run_id raises on a name without the three tokens
get_all_max_flows(po_sr) ==
    With(get_po_lines(po_sr), LAMBDA po_lines :
    With(flow_columns(po_sr), LAMBDA fc :
    With(parse_run_id(po_sr.name), LAMBDA id :
        IF po_lines.kind = "raise" \/ id.raised
        THEN [kind |-> "raise", sr |-> NoSeries]
        ELSE [kind |-> "ok",
              sr |-> [name     |-> po_sr.name,
                      event    |-> id.storm,
                      duration |-> id.duration,
                      tp       |-> id.temp_patt,
                      \* f"Max Flow {s}"
                      cols     |-> [k \in 1..Len(fc) |->
                                      sMaxFlow \o <<" ">> \o po_lines.v[k]],
                      vals     |-> [k \in 1..Len(fc) |-> column_max(po_sr, fc[k])]]])))

-----------------------------------------------------------------------------
(* Ensemble Aggregator: concat_po_srs.  The EnsembleTable is [columns,     *)
(* rows]: the "Max Flow ..." columns in order (the four identity columns   *)
(* come first in every row) and a record per run; << >> is the empty frame.*)

\* the elements of a sequence in the order of their first appearance
unique(s) ==
    With(s, LAMBDA t :
    With(SelectSeq([i \in 1..Len(t) |-> i],
                   LAMBDA i : \A j \in 1..(i - 1) : t[j] # t[i]),
         LAMBDA first : [k \in 1..Len(first) |-> t[first[k]]]))

RECURSIVE flatten(_)
flatten(ss) == IF Len(ss) = 0 THEN << >> ELSE ss[1] \o flatten(Tail(ss))

\* the value of a series under a label, NaN when it has no such label
series_at(sr, label) ==
    IF label \in Range(sr.cols)
    THEN sr.vals[Min({k \in 1..Len(sr.cols) : sr.cols[k] = label})]
    ELSE << >>

\* one row of the EnsembleTable
ensemble_row(sr, columns) ==
    [run_id |-> sr.name, event |-> sr.event, duration |-> sr.duration, tp |-> sr.tp,
     flows |-> [c \in Range(columns) |-> series_at(sr, c)]]

\* a variant of concat_rows that keeps only the last row of each run identity
concat_rows_dedup(srs) ==
    With(unique(flatten([i \in 1..Len(srs) |-> srs[i].cols])), LAMBDA columns :
    With(SelectSeq([i \in 1..Len(srs) |-> i],
                   LAMBDA i : \A j \in (i + 1)..Len(srs) :
                       ~ (/\ srs[i].event = srs[j].event
                          /\ srs[i].duration = srs[j].duration
                          /\ srs[i].tp = srs[j].tp)),
         LAMBDA last :
        [columns |-> columns,
         rows    |-> [k \in 1..Len(last) |-> ensemble_row(srs[last[k]], columns)]]))

\* pd.concat(..., axis=1) over the series, transposed: the union of the
\* labels in the order they first appear, a row per series in input order
concat_rows(srs) ==
    With(unique(flatten([i \in 1..Len(srs) |-> srs[i].cols])), LAMBDA columns :
        [columns |-> columns,
         rows    |-> [i \in 1..Len(srs) |-> ensemble_row(srs[i], columns)]])

\* concat_po_srs
concat_po_srs(max_flows_dfs) ==
    With([i \in 1..Len(max_flows_dfs) |-> get_all_max_flows(max_flows_dfs[i])],
         LAMBDA got :
        IF \E i \in 1..Len(got) : got[i].kind = "raise"
        THEN [kind |-> "raise", df |-> << >>]
        ELSE IF Len(got) = 0 THEN [kind |-> "ok", df |-> << >>]
        ELSE With([i \in 1..Len(got) |-> got[i].sr], LAMBDA srs :
                 [kind |-> "ok", df |-> concat_rows(srs)]))

-----------------------------------------------------------------------------
(* Storm-Space Analyzer: _split_po_dfs, _split_event, _drop_sort_duration, *)
(* _get_col_name, _get_crit_tp, _tp_vs_max_flow_df, all_critical_storms.   *)
(* A StormGrid is [name, index, columns, data, Average, Median,            *)
(* CriticalTP]: a row label (an integer duration) per row, the temporal    *)
(* pattern columns, and per row the cells and the three derived columns.   *)

sTp == <<"t", "p">>

sAverage == <<"A", "v", "e", "r", "a", "g", "e">>

sMedian == <<"M", "e", "d", "i", "a", "n">>

\* a set of strings as a sequence in ascending order
sorted_strings(S) ==
    With(S, LAMBDA T :
        [k \in 1..Cardinality(T) |->
            CHOOSE x \in T : Cardinality({y \in T : StrLess(y, x)}) = k - 1])

\* the positions of a sequence of integers in ascending order of the
\* integers, equal ones in their original order
sorted_positions(keys) ==
    With(keys, LAMBDA ks :
        [k \in 1..Len(ks) |->
            CHOOSE i \in 1..Len(ks) :
                Cardinality({j \in 1..Len(ks) :
                    ks[j] < ks[i] \/ (ks[j] = ks[i] /\ j < i)}) = k - 1])

\* re.sub(r"[a-zA-Z]", "", s)
strip_letters(s) == SelectSeq(s, LAMBDA c : c \notin Letters)

\* _drop_sort_duration on the row labels of a frame (given as text, str(x)):
\* the integer labels and the order of the rows after sort_index; int()
\* raises ValueError on a label that is no integer once its letters are gone
drop_sort_duration(labels) ==
    With([i \in 1..Len(labels) |-> int(strip_letters(labels[i]))], LAMBDA ints :
        IF \E i \in 1..Len(ints) : ints[i] = << >>
        THEN [kind |-> "raise", index |-> << >>, order |-> << >>]
        ELSE With([i \in 1..Len(ints) |-> ints[i][1]], LAMBDA keys :
             With(sorted_positions(keys), LAMBDA order :
                 [kind |-> "ok",
                  index |-> [k \in 1..Len(order) |-> keys[order[k]]],
                  order |-> order])))

\* rationals
Rat(v) == <<v, 1>>

RatEq(a, b) == a[1] * b[2] = b[1] * a[2]

RatLess(a, b) == a[1] * b[2] < b[1] * a[2]

RatSub(a, b) == <<a[1] * b[2] - b[1] * a[2], a[2] * b[2]>>

RECURSIVE SeqSum(_)
SeqSum(s) == IF Len(s) = 0 THEN 0 ELSE s[1] + SeqSum(Tail(s))

\* the numeric cells of a row of cells, NaN skipped
present(cells) ==
    With(SelectSeq(cells, LAMBDA c : c # << >>), LAMBDA ps :
        [i \in 1..Len(ps) |-> ps[i][1]])

\* DataFrame.mean(axis=1) on one row: NaN cells are skipped
row_mean(cells) ==
    With(present(cells), LAMBDA vs :
        IF Len(vs) = 0 THEN << >> ELSE << <<SeqSum(vs), Len(vs)>> >>)

\* DataFrame.median(axis=1) on one row: NaN cells are skipped, the mean of
\* the two middle values when their number is even
row_median(cells) ==
    With(present(cells), LAMBDA vs :
    With(sorted_positions(vs), LAMBDA o :
        IF Len(vs) = 0 THEN << >>
        ELSE IF Len(vs) % 2 = 1 THEN << Rat(vs[o[(Len(vs) + 1) \div 2]]) >>
        ELSE << <<vs[o[Len(vs) \div 2]] + vs[o[Len(vs) \div 2 + 1]], 2>> >>))

\* the row that df.apply(_get_crit_tp, axis=1) hands over, after dropna():
\* the pairs <<label, value>> of the cells that are not NaN
crit_row(columns, cells, average, median) ==
    With(SelectSeq([i \in 1..Len(columns) |-> <<columns[i], cells[i]>>]
                   \o << <<sAverage, average>>, <<sMedian, median>> >>,
                   LAMBDA p : p[2] # << >>),
         LAMBDA kept :
        [i \in 1..Len(kept) |->
           <<kept[i][1],
             IF kept[i][1] \in {sAverage, sMedian} THEN kept[i][2][1]
             ELSE Rat(kept[i][2][1])>>])

\* _get_col_name: the label of the first cell of the row equal to value
get_col_name(value, row) ==
    row[Min({i \in 1..Len(row) : RatEq(row[i][2], value)})][1]

\* a variant of get_crit_tp: the column of the largest value above the median
get_crit_tp_max(median, row) ==
    With({i \in 1..Len(row) :
            Contains(row[i][1], sTp) /\ RatLess(median[1], row[i][2])},
         LAMBDA above :
        IF above = {} THEN sNA
        ELSE row[Min({i \in above : \A j \in above : ~ RatLess(row[i][2], row[j][2])})][1])

\* _get_crit_tp: diffs maps the column name found for each cell to
\* cell - median, in the order the names are first met; min() returns the
\* first key with the least positive difference, "NA" when there is none
get_crit_tp(median, row) ==
    With([i \in 1..Len(row) |-> get_col_name(row[i][2], row)], LAMBDA names :
    With(SelectSeq([i \in 1..Len(row) |-> i], LAMBDA i : Contains(names[i], sTp)),
         LAMBDA cells :
    With(unique([k \in 1..Len(cells) |-> names[cells[k]]]), LAMBDA keys :
    With([k \in 1..Len(keys) |->
            RatSub(row[Max({i \in Range(cells) : names[i] = keys[k]})][2], median[1])],
         LAMBDA diffs :
    With(SelectSeq([k \in 1..Len(keys) |-> k], LAMBDA k : diffs[k][1] > 0),
         LAMBDA positive_diffs :
        IF Len(positive_diffs) = 0 THEN sNA
        ELSE keys[positive_diffs[Min({i \in 1..Len(positive_diffs) :
                \A j \in 1..Len(positive_diffs) :
                    ~ RatLess(diffs[positive_diffs[j]], diffs[positive_diffs[i]])})]])))))

\* a variant of pivot that keeps the last of the runs of one (duration,
\* temporal pattern) pair instead of raising
pivot_keep_last(rows, po_line) ==
    With(sorted_strings({rows[i].duration : i \in 1..Len(rows)}), LAMBDA index :
    With(sorted_strings({rows[i].tp : i \in 1..Len(rows)}), LAMBDA columns :
        [kind |-> "ok", index |-> index, columns |-> columns,
         data |-> [r \in 1..Len(index) |-> [c \in 1..Len(columns) |->
             With({i \in 1..Len(rows) :
                     rows[i].duration = index[r] /\ rows[i].tp = columns[c]},
                  LAMBDA at : IF at = {} THEN << >>
                              ELSE rows[Max(at)].flows[po_line])]]]))

\* df.pivot(index="Duration", columns="Temporal Pattern", values=po_line):
\* ValueError when two rows share a (Duration, Temporal Pattern) pair;
\* otherwise the sorted distinct durations by the sorted distinct patterns,
\* NaN where no run has the pair
pivot(rows, po_line) ==
    IF \E i, j \in 1..Len(rows) :
          i # j /\ rows[i].duration = rows[j].duration /\ rows[i].tp = rows[j].tp
    THEN [kind |-> "raise", index |-> << >>, columns |-> << >>, data |-> << >>]
    ELSE
      With(sorted_strings({rows[i].duration : i \in 1..Len(rows)}), LAMBDA index :
      With(sorted_strings({rows[i].tp : i \in 1..Len(rows)}), LAMBDA columns :
          [kind |-> "ok", index |-> index, columns |-> columns,
           data |-> [r \in 1..Len(index) |-> [c \in 1..Len(columns) |->
               With({i \in 1..Len(rows) :
                       rows[i].duration = index[r] /\ rows[i].tp = columns[c]},
                    LAMBDA at : IF at = {} THEN << >>
                                ELSE rows[CHOOSE i \in at : TRUE].flows[po_line])]]]))

NoGrid == [name |-> << >>, index |-> << >>, columns |-> << >>, data |-> << >>,
           Average |-> << >>, Median |-> << >>, CriticalTP |-> << >>]

\* the rows of a grid put in the given order under the given labels
reorder(g, index, order) ==
    [name       |-> g.name,
     index      |-> index,
     columns    |-> g.columns,
     data       |-> [k \in 1..Len(order) |-> g.data[order[k]]],
     Average    |-> [k \in 1..Len(order) |-> g.Average[order[k]]],
     Median     |-> [k \in 1..Len(order) |-> g.Median[order[k]]],
     CriticalTP |-> [k \in 1..Len(order) |-> g.CriticalTP[order[k]]]]

\* _tp_vs_max_flow_df, from the pivoted and sorted cells on: the Average,
\* Median and Critical TP columns over the columns whose label contains "tp"
with_statistics(name, index, columns, data) ==
    With(SelectSeq([c \in 1..Len(columns) |-> c],
                   LAMBDA c : Contains(columns[c], sTp)), LAMBDA tp_cols :
    With([r \in 1..Len(data) |-> [k \in 1..Len(tp_cols) |-> data[r][tp_cols[k]]]],
         LAMBDA tps :
    With([r \in 1..Len(data) |-> row_mean(tps[r])], LAMBDA average :
    With([r \in 1..Len(data) |-> row_median(tps[r])], LAMBDA median :
        [name       |-> name,
         index      |-> index,
         columns    |-> columns,
         data       |-> data,
         Average    |-> average,
         Median     |-> median,
         CriticalTP |-> [r \in 1..Len(data) |->
             With(crit_row(columns, data[r], average[r], median[r]), LAMBDA row :
                 get_crit_tp(median[r], row))]]))))

\* _tp_vs_max_flow_df on the rows of one event with one "Max Flow" column
tp_vs_max_flow_df(rows, po_line) ==
    With(pivot(rows, po_line), LAMBDA pv :
        IF pv.kind = "raise" THEN [kind |-> "raise", event |-> << >>, df |-> NoGrid]
        ELSE
          With(drop_sort_duration(pv.index), LAMBDA ds :
              IF ds.kind = "raise"
              THEN [kind |-> "raise", event |-> << >>, df |-> NoGrid]
              ELSE
                With([k \in 1..Len(ds.order) |-> pv.data[ds.order[k]]], LAMBDA data :
                    [kind  |-> "ok",
                     event |-> rows[1].event,
                     df    |-> with_statistics(
                                  po_line \o <<":", " ">> \o rows[1].event
                                      \o <<" ", "E", "v", "e", "n", "t">>,
                                  ds.index, pv.columns, data)])))

\* _split_po_dfs: the labels of the columns that contain "Max Flow"
split_po_dfs(df) == SelectSeq(df.columns, LAMBDA c : Contains(c, sMaxFlow))

\* _split_event: the rows of each event, the events in order of appearance
split_event(df) ==
    With(unique([i \in 1..Len(df.rows) |-> df.rows[i].event]), LAMBDA unique_events :
        [e \in 1..Len(unique_events) |->
           SelectSeq(df.rows, LAMBDA r : r.event = unique_events[e])])

\* the body of the loop of all_critical_storms for one frame y of one
\* "Max Flow" column and one event
critical_storm(rows, po_line) ==
    With(tp_vs_max_flow_df(rows, po_line), LAMBDA t :
        IF t.kind = "raise" THEN [kind |-> "raise", df |-> NoGrid]
        ELSE
          With(drop_sort_duration([i \in 1..Len(t.df.index) |-> str(t.df.index[i])]),
               LAMBDA ds :
              IF ds.kind = "raise" THEN [kind |-> "raise", df |-> NoGrid]
              ELSE [kind |-> "ok",
                    df |-> [reorder(t.df, ds.index, ds.order)
                              EXCEPT !.name = t.event \o <<":", " ">> \o po_line]]))

\* all_critical_storms: all_runs_df["Event"] raises KeyError on the empty
\* frame; a grid per "Max Flow" column and, within it, per event
all_critical_storms(all_runs_df) ==
    IF all_runs_df = << >> THEN [kind |-> "raise", dfs |-> << >>]
    ELSE
      With(split_po_dfs(all_runs_df), LAMBDA po_lines :
      With(split_event(all_runs_df), LAMBDA events :
      With(flatten([p \in 1..Len(po_lines) |-> [e \in 1..Len(events) |-> <<p, e>>]]),
           LAMBDA pairs :
      With([k \in 1..Len(pairs) |->
              With(events[pairs[k][2]], LAMBDA y :
                  critical_storm(y, po_lines[pairs[k][1]]))], LAMBDA got :
          IF \E k \in 1..Len(got) : got[k].kind = "raise"
          THEN [kind |-> "raise", dfs |-> << >>]
          ELSE [kind |-> "ok", dfs |-> [k \in 1..Len(got) |-> got[k].df]]))))

-----------------------------------------------------------------------------
(* Summarizer: summarize_results.  A CriticalSummary is [Event, PO_Line,   *)
(* CriticalDuration, CriticalTP, CriticalTPFlow]; the flow is [na, v],     *)
(* na for the text "NA".                                                   *)

\* s.replace(old, ""), left to right
RECURSIVE remove_all(_, _)
remove_all(s, old) ==
    IF Len(s) < Len(old) THEN s
    ELSE IF SubSeq(s, 1, Len(old)) = old
         THEN remove_all(SubSeq(s, Len(old) + 1, Len(s)), old)
         ELSE <<s[1]>> \o remove_all(Tail(s), old)

\* s.split(":", 1): the text before the first colon and the text after it
split_colon(s) ==
    With({i \in 1..Len(s) : s[i] = ":"}, LAMBDA colons :
        IF colons = {} THEN <<s>>
        ELSE <<SubSeq(s, 1, Min(colons) - 1), SubSeq(s, Min(colons) + 1, Len(s))>>)

NoFlowValue == [na |-> TRUE, v |-> 0]

NoSummary == [Event |-> << >>, PO_Line |-> << >>, CriticalDuration |-> 0,
              CriticalTP |-> << >>, CriticalTPFlow |-> NoFlowValue]

\* a variant of idxmax_median: the last row that holds the largest Median
idxmax_median_last(g) ==
    With({r \in 1..Len(g.Median) : g.Median[r] # << >>}, LAMBDA ps :
        IF ps = {} THEN 0
        ELSE Max({r \in ps : \A q \in ps : ~ RatLess(g.Median[r][1], g.Median[q][1])}))

\* crit_tp_df["Median"].idxmax(): the position of the first row that holds
\* the largest Median, NaN skipped; 0 when every Median is NaN
idxmax_median(g) ==
    With({r \in 1..Len(g.Median) : g.Median[r] # << >>}, LAMBDA ps :
        IF ps = {} THEN 0
        ELSE Min({r \in ps : \A q \in ps : ~ RatLess(g.Median[r][1], g.Median[q][1])}))

\* summarize_results: .loc[crit_duration, ...] raises KeyError when idxmax
\* found no row, and returns a Series, whose truth value raises ValueError,
\* when the label of the row is the label of another row as well
summarize_results(crit_tp_df) ==
    With(idxmax_median(crit_tp_df), LAMBDA pos :
    With(split_colon(crit_tp_df.name), LAMBDA parts :
        IF pos = 0 \/ Len(parts) # 2 THEN [kind |-> "raise", sr |-> NoSummary]
        ELSE
          With(crit_tp_df.index[pos], LAMBDA crit_duration :
              IF Cardinality({r \in 1..Len(crit_tp_df.index) :
                                 crit_tp_df.index[r] = crit_duration}) > 1
              THEN [kind |-> "raise", sr |-> NoSummary]
              ELSE
                With(crit_tp_df.CriticalTP[pos], LAMBDA crit_tp :
                    [kind |-> "ok",
                     sr |-> [Event            |-> parts[1],
                             PO_Line          |-> remove_all(parts[2],
                                                     sMaxFlow \o <<" ">>),
                             CriticalDuration |-> crit_duration,
                             CriticalTP       |-> crit_tp,
                             CriticalTPFlow   |->
                                 IF crit_tp = sNA THEN NoFlowValue
                                 ELSE [na |-> FALSE,
                                       v  |-> crit_tp_df.data[pos][
                                           Min({c \in 1..Len(crit_tp_df.columns) :
                                               crit_tp_df.columns[c] = crit_tp})][1]]]]))))

-----------------------------------------------------------------------------
(* Batch Driver: get_po_csvs, copy_po_csvs, _skipped_inputs,               *)
(* _str_to_valid_filename, plot_results, main.  main is followed step by   *)
(* step; pc is its position.  plot_results is followed for the file it     *)
(* writes only.                                                            *)

sPoCsv == <<"_", "p", "o", ".", "c", "s", "v">>

sResultsTxt == <<"r", "e", "s", "u", "l", "t", "s", ".", "t", "x", "t">>

sLogTxt == <<"l", "o", "g", ".", "t", "x", "t">>

sPng == <<".", "p", "n", "g">>

\* get_po_csvs: the files of the folder whose lower-cased name holds "_po.csv"
get_po_csvs(dir) == SelectSeq(dir, LAMBDA f : Contains(lower(f.name), sPoCsv))

\* a variant of copy_po_csvs that keeps the files read_csv finds empty
copy_po_csvs_keep_empty(csv_filepaths) ==
    IF \E i \in 1..Len(csv_filepaths) : header_length(csv_filepaths[i]).kind = "raise"
    THEN [kind |-> "raise", v |-> << >>]
    ELSE [kind |-> "ok", v |-> csv_filepaths]

\* copy_po_csvs: StopIteration from _header_length is not caught; a file in
\* which read_csv finds no line is left out
copy_po_csvs(csv_filepaths) ==
    IF \E i \in 1..Len(csv_filepaths) : header_length(csv_filepaths[i]).kind = "raise"
    THEN [kind |-> "raise", v |-> << >>]
    ELSE [kind |-> "ok",
          v |-> SelectSeq(csv_filepaths,
                   LAMBDA f : read_csv(f, header_length(f).v - 1).kind = "ok")]

\* [os.path.basename(i) for i in inputs]
basenames(inputs) == [i \in 1..Len(inputs) |-> inputs[i].name]

\* _skipped_inputs
skipped_inputs(raw, saved) ==
    SelectSeq(basenames(raw), LAMBDA r : r \notin Range(basenames(saved)))

\* Logger.log: the object is appended to the entries of the logger
log(logger, kind, obj) == Append(logger, [k |-> kind, v |-> obj])

\* _str_to_valid_filename
str_to_valid_filename(name) ==
    [i \in 1..Len(name) |->
        IF name[i] \in {"%", ":", "/", ",", "\\", "[", "]", "<", ">", "*", "?"}
        THEN "-" ELSE name[i]]

\* a variant of CopyInputs that logs the skipped inputs before the saved ones
CopyInputs_skipped_first ==
    /\ pc = "start"
    /\ \E raw \in {get_po_csvs(listing)} :
       \E saved \in {copy_po_csvs(raw)} :
          /\ raw_inputs' = raw
          /\ IF saved.kind = "raise"
             THEN /\ pc' = "except"
                  /\ UNCHANGED <<saved_inputs, log_file>>
             ELSE /\ pc' = "parse"
                  /\ saved_inputs' = saved.v
                  /\ log_file' =
                        log(log(log(log(log_file, "text", "skipped"),
                                    "skipped", skipped_inputs(raw, saved.v)),
                                "text", "copied"),
                            "saved", basenames(saved.v))
    /\ UNCHANGED <<new_row, run_id, parsed, csv_file, table, listing, all_max_flows, df1,
                   all_crit, results_sr, results_file, written, status>>

\* main, lines 544-551
CopyInputs ==
    /\ pc = "start"
    /\ \E raw \in {get_po_csvs(listing)} :
       \E saved \in {copy_po_csvs(raw)} :
          /\ raw_inputs' = raw
          /\ IF saved.kind = "raise"
             THEN /\ pc' = "except"
                  /\ UNCHANGED <<saved_inputs, log_file>>
             ELSE /\ pc' = "parse"
                  /\ saved_inputs' = saved.v
                  /\ log_file' =
                        log(log(log(log(log_file, "text", "copied"),
                                    "saved", basenames(saved.v)),
                                "text", "skipped"),
                            "skipped", skipped_inputs(raw, saved.v))
    /\ UNCHANGED <<new_row, run_id, parsed, csv_file, table, listing, all_max_flows, df1,
                   all_crit, results_sr, results_file, written, status>>

\* main, lines 556-558: one turn of the loop; exit() in parse_po_csv ends
\* the program where it stands
ParseNext ==
    /\ pc = "parse"
    /\ Len(all_max_flows) < Len(saved_inputs)
    /\ \E r \in {parse_po_csv(saved_inputs[Len(all_max_flows) + 1])} :
          IF r.kind = "ok"
          THEN /\ all_max_flows' = Append(all_max_flows, r.df)
               /\ pc' = "parse"
          ELSE /\ pc' = IF r.kind = "exit" THEN "exited" ELSE "except"
               /\ UNCHANGED all_max_flows
    /\ UNCHANGED <<new_row, run_id, parsed, csv_file, table, listing, raw_inputs,
                   saved_inputs, df1, all_crit, results_sr, log_file,
                   results_file, written, status>>

\* main, lines 560-564
Concat ==
    /\ pc = "parse"
    /\ Len(all_max_flows) = Len(saved_inputs)
    /\ \E r \in {concat_po_srs(all_max_flows)} :
          IF r.kind = "raise"
          THEN pc' = "except" /\ UNCHANGED <<df1, log_file>>
          ELSE /\ df1' = r.df
               /\ log_file' = log(log_file, "df1", r.df)
               /\ pc' = "analyse"
    /\ UNCHANGED <<new_row, run_id, parsed, csv_file, table, listing, raw_inputs,
                   saved_inputs, all_max_flows, all_crit, results_sr,
                   results_file, written, status>>

\* main, lines 567-570
Analyse ==
    /\ pc = "analyse"
    /\ \E r \in {all_critical_storms(df1)} :
          IF r.kind = "raise"
          THEN pc' = "except" /\ UNCHANGED <<all_crit, log_file>>
          ELSE /\ all_crit' = r.dfs
               /\ log_file' = log(log_file, "all_crit", r.dfs)
               /\ pc' = "plot"
    /\ UNCHANGED <<new_row, run_id, parsed, csv_file, table, listing, raw_inputs,
                   saved_inputs, all_max_flows, df1, results_sr, results_file,
                   written, status>>

\* main, lines 573-574: a chart per grid
Plot ==
    /\ pc = "plot"
    /\ written' = written \cup
          {str_to_valid_filename(all_crit[i].name) \o sPng : i \in 1..Len(all_crit)}
    /\ pc' = "summarize"
    /\ UNCHANGED <<new_row, run_id, parsed, csv_file, table, listing, raw_inputs,
                   saved_inputs, all_max_flows, df1, all_crit, results_sr,
                   log_file, results_file, status>>

\* main, lines 577-591: results_sr holds the summaries made before the
\* first grid on which summarize_results raises
Summarize ==
    /\ pc = "summarize"
    /\ \E got \in {[i \in 1..Len(all_crit) |-> summarize_results(all_crit[i])]} :
       \E bad \in {{i \in 1..Len(got) : got[i].kind = "raise"}} :
          IF bad # {}
          THEN /\ results_sr' = [i \in 1..(Min(bad) - 1) |-> got[i].sr]
               /\ pc' = "except"
               /\ UNCHANGED <<results_file, written, status>>
          ELSE /\ results_sr' = [i \in 1..Len(got) |-> got[i].sr]
               /\ results_file' = log(log(results_file, "text", "RESULTS"),
                                      "results_sr", results_sr')
               /\ written' = written \cup {sResultsTxt}
               /\ status' = "Success"
               /\ pc' = "write_log"
    /\ UNCHANGED <<new_row, run_id, parsed, csv_file, table, listing, raw_inputs,
                   saved_inputs, all_max_flows, df1, all_crit, log_file>>

\* main, lines 593-601
Except ==
    /\ pc = "except"
    /\ log_file' = log(log_file, "error", "Error encountered!")
    /\ status' = "Error"
    /\ pc' = "write_log"
    /\ UNCHANGED <<new_row, run_id, parsed, csv_file, table, listing, raw_inputs,
                   saved_inputs, all_max_flows, df1, all_crit, results_sr,
                   results_file, written>>

\* main, lines 604-605
WriteLog ==
    /\ pc = "write_log"
    /\ written' = written \cup {sLogTxt}
    /\ pc' = "done"
    /\ UNCHANGED <<new_row, run_id, parsed, csv_file, table, listing, raw_inputs,
                   saved_inputs, all_max_flows, df1, all_crit, results_sr,
                   log_file, results_file, status>>

-----------------------------------------------------------------------------
(* The input folders of the batch runs.  A result file has a header row    *)
(* <<run, "Time", "Flow">>, a row with the name of the location under      *)
(* "Flow", and a row per time step with the flow there; its rows have the  *)
(* same number of fields and its flows are whole numbers.                  *)

\* the name TUFLOW gives a result file; tp is << >> for a name without the
\* temporal pattern token
PoName(prefix, event, duration, tp) ==
    prefix \o <<"_">> \o event \o <<"_">> \o duration
        \o (IF tp = << >> THEN << >> ELSE <<"_">> \o tp)
        \o <<"_", "P", "O", ".", "c", "s", "v">>

PoRows(location, series) ==
    << <<sRun, sTime, sFlow>>, <<sRun, sLoc, location>> >>
        \o [i \in 1..Len(series) |-> <<sRun, str(i), str(series[i])>>]

sL1 == <<"L", "1">>

sL2 == <<"L", "2">>

s10m == <<"1", "0", "m">>

s90m == <<"9", "0", "m">>

s090m == <<"0", "9", "0", "m">>

sTp1 == <<"t", "p", "1">>

sTp2 == <<"t", "p", "2">>

Folder ==
    { [name |-> PoName(<<"x">>, <<"E">>, s10m, sTp1),  rows |-> PoRows(sL1, <<3, 7>>)],
      [name |-> PoName(<<"x">>, <<"E">>, s10m, sTp2),  rows |-> PoRows(sL1, <<9>>)],
      [name |-> PoName(<<"x">>, <<"E">>, s090m, sTp1), rows |-> PoRows(sL1, <<5>>)],
      [name |-> PoName(<<"x">>, <<"E">>, s90m, sTp1),  rows |-> PoRows(sL1, <<6>>)],
      \* the run identity of the first file under another name
      [name |-> PoName(<<"y">>, <<"E">>, s10m, sTp1),  rows |-> PoRows(sL1, <<4>>)],
      \* another event, another location
      [name |-> PoName(<<"x">>, <<"F">>, s10m, sTp1),  rows |-> PoRows(sL2, <<2>>)],
      \* a name without the temporal pattern token
      [name |-> PoName(<<"x">>, <<"E">>, s10m, << >>), rows |-> PoRows(sL1, <<8>>)],
      \* a file of zero bytes
      [name |-> PoName(<<"z">>, <<"E">>, s10m, sTp1),  rows |-> << >>],
      \* a file of one blank line
      [name |-> PoName(<<"b">>, <<"E">>, s10m, sTp1),  rows |-> << << >> >>],
      \* a file with a header row only
      [name |-> PoName(<<"h">>, <<"E">>, s10m, sTp1),  rows |-> << <<sRun, sTime, sFlow>> >>],
      \* a file that is no PO result file
      [name |-> <<"x", "_", "E", "_", "9", "0", "m", "_", "t", "p", "2", ".", "c", "s", "v">>,
       rows |-> PoRows(sL1, <<1>>)] }

\* os.listdir: up to MaxFiles files of the catalogue, in any order
Listings ==
    {l \in UNION {[1..n -> Folder] : n \in 0..MaxFiles} :
        \A i, j \in 1..Len(l) : i # j => l[i] # l[j]}

Init ==
    /\ pc = "start"
    /\ listing \in Listings
    /\ run_id = << >> /\ parsed = NoParse
    /\ csv_file = NoFile /\ table = NoTable
    /\ raw_inputs = << >> /\ saved_inputs = << >>
    /\ all_max_flows = << >> /\ df1 = << >> /\ all_crit = << >>
    /\ results_sr = << >> /\ log_file = << >> /\ results_file = << >>
    /\ written = {} /\ status = "none"
    /\ new_row = NoSeries

Next ==
    \/ CopyInputs
    \/ ParseNext
    \/ Concat
    \/ Analyse
    \/ Plot
    \/ Summarize
    \/ Except
    \/ WriteLog

Spec == Init /\ [][Next]_vars

-----------------------------------------------------------------------------
(* The parser and the normalizer run on their own.                         *)

Idle ==
    /\ listing = << >> /\ raw_inputs = << >> /\ saved_inputs = << >>
    /\ all_max_flows = << >> /\ df1 = << >> /\ all_crit = << >>
    /\ results_sr = << >> /\ log_file = << >> /\ results_file = << >>
    /\ written = {} /\ status = "none"
    /\ new_row = NoSeries

InitParse ==
    /\ pc = "parse_run_id"
    /\ run_id \in NameInputs
    /\ parsed = NoParse
    /\ csv_file = NoFile /\ table = NoTable
    /\ Idle

\* a call of _parse_run_id(run_id)
ParseRunId ==
    /\ pc = "parse_run_id"
    /\ parsed' = parse_run_id(run_id)
    /\ pc' = IF parsed'.raised THEN "raised" ELSE "returned"
    /\ UNCHANGED <<new_row, run_id, csv_file, table, listing, raw_inputs, saved_inputs,
                   all_max_flows, df1, all_crit, results_sr, log_file,
                   results_file, written, status>>

SpecParse == InitParse /\ [][ParseRunId]_vars

InitNorm ==
    /\ pc = "parse_po_csv"
    /\ csv_file \in RawFiles
    /\ table = NoTable
    /\ run_id = << >> /\ parsed = NoParse
    /\ Idle

\* a call of parse_po_csv(csv_file)
ParsePoCsv ==
    /\ pc = "parse_po_csv"
    /\ LET r == parse_po_csv(csv_file)
       IN  /\ table' = r.df
           /\ pc' = IF r.kind = "ok" THEN "returned"
                    ELSE IF r.kind = "exit" THEN "exited" ELSE "raised"
    /\ UNCHANGED <<new_row, run_id, parsed, csv_file, listing, raw_inputs, saved_inputs,
                   all_max_flows, df1, all_crit, results_sr, log_file,
                   results_file, written, status>>

SpecNorm == InitNorm /\ [][ParsePoCsv]_vars

-----------------------------------------------------------------------------
(* The analyzer and the summarizer run on their own, on the ensemble       *)
(* tables of one event and one location: the runs of GridCells, each       *)
(* absent or with a peak flow in 1..MaxFlow.                               *)

sTp3 == <<"t", "p", "3">>

sTp4 == <<"t", "p", "4">>

sTp5 == <<"t", "p", "5">>

s9m == <<"9", "m">>

s09m == <<"0", "9", "m">>

sEvent == <<"e">>

\* the (duration, temporal pattern) pairs of the enumerated runs
GridCells ==
    << <<s10m, sTp1>>, <<s10m, sTp2>>, <<s10m, sTp3>>, <<s10m, sTp4>>,
       <<s9m, sTp5>>, <<s09m, sTp1>> >>

\* the EnsembleTable of the runs with a flow above 0 in flow, which maps
\* each pair of GridCells to a flow, 0 standing for "no such run"
EnsembleTable(flow) ==
    With(SelectSeq([k \in 1..Len(GridCells) |-> k], LAMBDA k : flow[k] > 0), LAMBDA runs :
        IF Len(runs) = 0 THEN << >>
        ELSE
          With(<<sMaxFlow \o <<" ">> \o sL1>>, LAMBDA columns :
              [columns |-> columns,
               rows |-> [i \in 1..Len(runs) |->
                   [run_id   |-> PoName(<<"x">>, sEvent, GridCells[runs[i]][1],
                                        GridCells[runs[i]][2]),
                    event    |-> sEvent,
                    duration |-> GridCells[runs[i]][1],
                    tp       |-> GridCells[runs[i]][2],
                    flows    |-> [c \in Range(columns) |-> <<flow[runs[i]]>>]]]]))

EnsembleTables ==
    {EnsembleTable(flow) : flow \in [1..Len(GridCells) -> 0..MaxFlow]}

InitGrid ==
    /\ pc = "all_critical_storms"
    /\ df1 \in EnsembleTables
    /\ run_id = << >> /\ parsed = NoParse
    /\ csv_file = NoFile /\ table = NoTable
    /\ listing = << >> /\ raw_inputs = << >> /\ saved_inputs = << >>
    /\ all_max_flows = << >> /\ all_crit = << >>
    /\ results_sr = << >> /\ log_file = << >> /\ results_file = << >>
    /\ written = {} /\ status = "none"
    /\ new_row = NoSeries

\* a call of all_critical_storms(df1)
AllCriticalStorms ==
    /\ pc = "all_critical_storms"
    /\ \E r \in {all_critical_storms(df1)} :
          /\ all_crit' = r.dfs
          /\ pc' = IF r.kind = "raise" THEN "raised" ELSE "summarize_results"
    /\ UNCHANGED <<new_row, run_id, parsed, csv_file, table, listing, raw_inputs,
                   saved_inputs, all_max_flows, df1, results_sr, log_file,
                   results_file, written, status>>

\* a call of summarize_results on each grid in turn, up to the first one
\* on which it raises
SummarizeResults ==
    /\ pc = "summarize_results"
    /\ \E got \in {[i \in 1..Len(all_crit) |-> summarize_results(all_crit[i])]} :
       \E bad \in {{i \in 1..Len(got) : got[i].kind = "raise"}} :
          /\ results_sr' = [i \in 1..(IF bad = {} THEN Len(got) ELSE Min(bad) - 1) |->
                               got[i].sr]
          /\ pc' = IF bad = {} THEN "returned" ELSE "raised"
    /\ UNCHANGED <<new_row, run_id, parsed, csv_file, table, listing, raw_inputs,
                   saved_inputs, all_max_flows, df1, all_crit, log_file,
                   results_file, written, status>>

SpecGrid == InitGrid /\ [][AllCriticalStorms \/ SummarizeResults]_vars

-----------------------------------------------------------------------------
(* The peak extractor run on its own, on the tables parse_po_csv returns   *)
(* for result files with a name that parses: one "Flow" column of up to    *)
(* MaxSteps time steps, or two "Flow" columns around a "Vel" column of up  *)
(* to MaxData time steps, each cell a whole number, a text or empty        *)
(* (which read_csv reads as a missing value).                              *)

\* most time steps of an enumerated one-column result file
MaxSteps == 4

PeakCells == {<< >>, <<"x">>, <<"2">>, <<"3">>, <<"7">>}

PeakName == PoName(<<"x">>, <<"E">>, s10m, sTp1)

\* a result file with one "Flow" column
PeakFile1(body) ==
    [name |-> PeakName,
     rows |-> << <<sRun, sTime, sFlow>>, <<sRun, sLoc, sL1>> >>
              \o [i \in 1..Len(body) |-> <<sRun, str(i), body[i]>>]]

\* a result file with two "Flow" columns and a "Vel" column between them
PeakFile2(loc1, loc2, a, b) ==
    [name |-> PeakName,
     rows |-> << <<sRun, sTime, sFlow, sVel, sFlow>>,
                 <<sRun, sLoc, loc1, sLoc, loc2>> >>
              \o [i \in 1..Len(a) |-> <<sRun, str(i), a[i], <<"9">>, b[i]>>]]

PeakFiles ==
    {PeakFile1(body) : body \in UNION {[1..n -> PeakCells] : n \in 0..MaxSteps}}
    \cup {PeakFile2(sL1, loc2, ab[1], ab[2]) :
            loc2 \in {sL1, sL2},
            ab \in UNION {[1..n -> PeakCells] \X [1..n -> PeakCells] : n \in 0..MaxData}}
    \* a file with a header row only
    \cup {[name |-> PeakName, rows |-> << <<sRun, sTime, sFlow>> >>]}

NormalizedTables == {parse_po_csv(f).df : f \in PeakFiles}

InitPeak ==
    /\ pc = "get_all_max_flows"
    /\ table \in NormalizedTables
    /\ run_id = << >> /\ parsed = NoParse /\ csv_file = NoFile
    /\ Idle

\* a call of _get_all_max_flows(table)
GetAllMaxFlows ==
    /\ pc = "get_all_max_flows"
    /\ \E r \in {get_all_max_flows(table)} :
          /\ new_row' = r.sr
          /\ pc' = IF r.kind = "raise" THEN "raised" ELSE "returned"
    /\ UNCHANGED <<run_id, parsed, csv_file, table, listing, raw_inputs,
                   saved_inputs, all_max_flows, df1, all_crit, results_sr,
                   log_file, results_file, written, status>>

SpecPeak == InitPeak /\ [][GetAllMaxFlows]_vars

-----------------------------------------------------------------------------
(* C1.                                                                     *)

\* e is the text between the first and the second underscore of l
IsEventOf(l, e) ==
    \E i \in 1..Len(l), j \in 1..Len(l) :
        /\ i < j /\ l[i] = "_" /\ l[j] = "_"
        /\ \A k \in 1..(j - 1) : k # i => l[k] # "_"
        /\ e = SubSeq(l, i + 1, j - 1)

\* 1 to 4 digits and then 'm' start at position i of l
DurationStartsAt(l, i) ==
    \E k \in 1..4 :
        /\ i + k <= Len(l)
        /\ \A n \in i..(i + k - 1) : l[n] \in Digits
        /\ l[i + k] = "m"

\* d is the first occurrence in l of 1 to 4 digits immediately followed by 'm'
IsDurationOf(l, d) ==
    \E i \in 1..Len(l), k \in 1..4 :
        /\ i + k <= Len(l)
        /\ \A n \in i..(i + k - 1) : l[n] \in Digits
        /\ l[i + k] = "m"
        /\ d = SubSeq(l, i, i + k)
        /\ \A n \in 1..(i - 1) : ~ DurationStartsAt(l, n)

\* t is the first occurrence in l of 'tp' with all the digits that follow it
IsTpOf(l, t) ==
    \E i \in 1..(Len(l) - 1), e \in 1..Len(l) :
        /\ l[i] = "t" /\ l[i + 1] = "p" /\ e >= i + 1
        /\ \A n \in 1..(i - 1) : ~ (l[n] = "t" /\ l[n + 1] = "p")
        /\ \A n \in (i + 2)..e : l[n] \in Digits
        /\ (e < Len(l) => l[e + 1] \notin Digits)
        /\ t = SubSeq(l, i, e)

AllTokensPresent(l) ==
    /\ \E i \in 1..Len(l), j \in 1..Len(l) : i < j /\ l[i] = "_" /\ l[j] = "_"
    /\ \E i \in 1..Len(l) : DurationStartsAt(l, i)
    /\ \E i \in 1..(Len(l) - 1) : l[i] = "t" /\ l[i + 1] = "p"

\* What _parse_run_id returns is the lower-cased triple of the three tokens.
C1_Triple ==
    (pc \in {"returned", "raised"} /\ run_id # << >> /\ AllTokensPresent(lower(run_id)))
        => /\ pc = "returned"
           /\ IsEventOf(lower(run_id), parsed.storm)
           /\ IsDurationOf(lower(run_id), parsed.duration)
           /\ IsTpOf(lower(run_id), parsed.temp_patt)
           /\ parsed.duration # << >> /\ parsed.temp_patt # << >>

\* C1: for every filename in which all three tokens are present, matched
\* case-insensitively, _parse_run_id returns the lower-cased triple (the text
\* between the first two underscores, the first 1-4 digits followed by 'm',
\* the first 'tp' with its digits) and all three fields are non-empty.
C1_AllFieldsNonEmpty ==
    (pc \in {"returned", "raised"} /\ run_id # << >> /\ AllTokensPresent(lower(run_id)))
        => /\ C1_Triple
           /\ parsed.storm # << >>

\* test.py: test_parse_storm_name
C1_Example ==
    (pc = "returned" /\ run_id = ExampleName)
        => /\ parsed.storm = <<"0", ".", "5", "e", "y">>
           /\ parsed.duration = <<"3", "6", "0", "m">>
           /\ parsed.temp_patt = <<"t", "p", "0", "7">>

-----------------------------------------------------------------------------
(* C2, C3.                                                                 *)

NoOutcome == [kind |-> "raise", df1 |-> << >>, all_crit |-> << >>, results_sr |-> << >>]

\* what the pipeline of main yields on the given files alone
Pipeline(files) ==
    With([i \in 1..Len(files) |-> parse_po_csv(files[i])], LAMBDA tables :
        IF \E i \in 1..Len(tables) : tables[i].kind # "ok" THEN NoOutcome
        ELSE
          With(concat_po_srs([i \in 1..Len(tables) |-> tables[i].df]), LAMBDA c :
              IF c.kind = "raise" THEN NoOutcome
              ELSE
                With(all_critical_storms(c.df), LAMBDA a :
                    IF a.kind = "raise" THEN NoOutcome
                    ELSE
                      With([i \in 1..Len(a.dfs) |-> summarize_results(a.dfs[i])],
                           LAMBDA s :
                          IF \E i \in 1..Len(s) : s[i].kind = "raise" THEN NoOutcome
                          ELSE [kind |-> "ok", df1 |-> c.df, all_crit |-> a.dfs,
                                results_sr |-> [i \in 1..Len(s) |-> s[i].sr]]))))

\* main ended as it ends on the given files alone
EndsAsOn(files) ==
    With(Pipeline(files), LAMBDA p :
        p.kind = "ok"
            => /\ status = "Success"
               /\ df1 = p.df1
               /\ all_crit = p.all_crit
               /\ results_sr = p.results_sr)

Parsable(f) == ~ parse_run_id(f.name).raised

\* C2: when main has ended on a folder that holds a file whose name fails
\* run-identity parsing, and the pipeline succeeds on the other files taken
\* alone, then main has succeeded and its EnsembleTable, StormGrids and
\* summaries are those of the other files.
C2_UnparsableNameLeftOut ==
    (pc = "done" /\ \E i \in 1..Len(raw_inputs) : ~ Parsable(raw_inputs[i]))
        => EndsAsOn(SelectSeq(raw_inputs, Parsable))

\* a file without data rows: no line, or a header row only
NoDataRows(f) == Len(SelectSeq(f.rows, LAMBDA r : Len(r) > 0)) <= 1

HasDataRows(f) == ~ NoDataRows(f)

\* the name is in an entry of the given kind of the run log
Logged(kind, name) ==
    \E k \in 1..Len(log_file) : log_file[k].k = kind /\ name \in Range(log_file[k].v)

\* C3: when main has ended on a folder that holds a candidate file without
\* data rows, every such file is listed in the skipped inputs of the run
\* log, every candidate file that is not listed there is listed in the
\* ingested files, and, if the pipeline succeeds on the files with data
\* rows taken alone, main has succeeded with their results.
C3_EmptyInputsSkipped ==
    (pc = "done" /\ \E i \in 1..Len(raw_inputs) : NoDataRows(raw_inputs[i]))
        => /\ \A i \in 1..Len(raw_inputs) :
                 NoDataRows(raw_inputs[i]) => Logged("skipped", raw_inputs[i].name)
           /\ \A i \in 1..Len(raw_inputs) :
                 Logged("skipped", raw_inputs[i].name)
                     \/ Logged("saved", raw_inputs[i].name)
           /\ EndsAsOn(SelectSeq(raw_inputs, HasDataRows))

\* What copy_po_csvs does skip: when main has ended on a folder whose files
\* have at least one row each, the files in which read_csv finds no line
\* are listed in the skipped inputs and the others in the ingested files.
C3_BlankFilesSkipped ==
    (pc = "done" /\ \A i \in 1..Len(raw_inputs) : Len(raw_inputs[i].rows) > 0)
        => \A i \in 1..Len(raw_inputs) :
              IF \A r \in 1..Len(raw_inputs[i].rows) : raw_inputs[i].rows[r] = << >>
              THEN Logged("skipped", raw_inputs[i].name)
              ELSE Logged("saved", raw_inputs[i].name)

-----------------------------------------------------------------------------
(* C4.                                                                     *)

\* the temporal-pattern columns of row r of grid g that hold a value
\* strictly above the row's Median
AboveMedian(g, r) ==
    {c \in 1..Len(g.columns) :
        /\ Contains(g.columns[c], sTp)
        /\ g.data[r][c] # << >>
        /\ g.Median[r] # << >>
        /\ RatLess(g.Median[r][1], Rat(g.data[r][c][1]))}

\* the row of the example of the claim, as _get_crit_tp receives it
C4_ExampleRow ==
    << <<<<"t", "p", "0", "1">>, Rat(8)>>, <<<<"t", "p", "0", "2">>, Rat(10)>>,
       <<<<"t", "p", "0", "3">>, Rat(12)>>, <<<<"t", "p", "0", "4">>, Rat(15)>>,
       <<sAverage, <<45, 4>> >>, <<sMedian, Rat(10)>> >>

C4_WitnessNA ==
    \E i \in 1..Len(all_crit) : \E r \in 1..Len(all_crit[i].index) :
        /\ AboveMedian(all_crit[i], r) = {}
        /\ all_crit[i].CriticalTP[r] = sNA

-----------------------------------------------------------------------------
(* C5.                                                                     *)

\* row r of grid g holds the largest Median of the grid
HoldsMaxMedian(g, r) ==
    /\ g.Median[r] # << >>
    /\ \A q \in 1..Len(g.index) :
          g.Median[q] # << >> => ~ RatLess(g.Median[r][1], g.Median[q][1])

\* summary s reports row r of grid g
ReportsRow(s, g, r) ==
    /\ s.CriticalDuration = g.index[r]
    /\ s.CriticalTP = g.CriticalTP[r]
    /\ IF g.CriticalTP[r] = sNA THEN s.CriticalTPFlow.na
       ELSE \E c \in 1..Len(g.columns) :
               /\ g.columns[c] = g.CriticalTP[r]
               /\ s.CriticalTPFlow = [na |-> FALSE, v |-> g.data[r][c][1]]

DistinctDurations(g) ==
    \A q, r \in 1..Len(g.index) : q # r => g.index[q] # g.index[r]

\* C5: every summary that summarize_results returns for a StormGrid reports
\* a row that holds the largest Median of the grid and, among the rows that
\* hold it, has the smallest duration, with that row's Critical TP and that
\* row's value in the Critical TP column, or "NA" when the Critical TP is
\* "NA"; and summarize_results returns a summary for every grid whose rows
\* carry distinct durations and one of whose Medians is numeric.
C5_MaxMedianFirstDuration ==
    /\ \A i \in 1..Len(results_sr) :
          \E r \in 1..Len(all_crit[i].index) :
              /\ HoldsMaxMedian(all_crit[i], r)
              /\ \A q \in 1..Len(all_crit[i].index) :
                    HoldsMaxMedian(all_crit[i], q)
                        => all_crit[i].index[r] <= all_crit[i].index[q]
              /\ ReportsRow(results_sr[i], all_crit[i], r)
    /\ (pc \in {"returned", "raised"} /\ all_crit # << >>)
          => \A i \in 1..Len(all_crit) :
                (/\ \A j \in 1..i : DistinctDurations(all_crit[j])
                 /\ \A j \in 1..i : \E r \in 1..Len(all_crit[j].index) :
                                       all_crit[j].Median[r] # << >>)
                    => i <= Len(results_sr)

\* a summary of a grid in which two durations tie for the largest Median:
\* the smaller one is reported
C5_Witness ==
    /\ pc = "returned"
    /\ \E i \in 1..Len(results_sr) :
          \E q, r \in 1..Len(all_crit[i].index) :
              /\ HoldsMaxMedian(all_crit[i], q) /\ HoldsMaxMedian(all_crit[i], r)
              /\ all_crit[i].index[q] < all_crit[i].index[r]
              /\ results_sr[i].CriticalDuration = all_crit[i].index[q]

-----------------------------------------------------------------------------
(* C6.                                                                     *)

\* no row of the grid has a numeric Median
AllMissing(g) == \A r \in 1..Len(g.index) : g.Median[r] = << >>

\* C6: when main has ended with a StormGrid without a numeric Median among
\* its grids, all of which carry distinct durations, a summary has been
\* produced for every grid, and the summary of each grid without a numeric
\* Median has "NA" as critical temporal pattern and as critical flow.
C6_AllMissingGridSummarized ==
    (/\ pc = "done"
     /\ \E i \in 1..Len(all_crit) : AllMissing(all_crit[i])
     /\ \A i \in 1..Len(all_crit) : DistinctDurations(all_crit[i]))
        => /\ Len(results_sr) = Len(all_crit)
           /\ \A i \in 1..Len(all_crit) :
                 AllMissing(all_crit[i])
                     => /\ results_sr[i].CriticalTP = sNA
                        /\ results_sr[i].CriticalTPFlow.na

-----------------------------------------------------------------------------
(* C7.                                                                     *)

\* two rows of the EnsembleTable have the same event, duration and
\* temporal pattern
DuplicatePair(df) ==
    /\ df # << >>
    /\ \E i, j \in 1..Len(df.rows) :
          /\ i # j
          /\ df.rows[i].event = df.rows[j].event
          /\ df.rows[i].duration = df.rows[j].duration
          /\ df.rows[i].tp = df.rows[j].tp

ErrorLogged == \E k \in 1..Len(log_file) : log_file[k].k = "error"

\* C7: when the EnsembleTable holds two rows of one event with the same
\* (duration, temporal pattern) pair, no StormGrid and no summary is ever
\* produced, results.txt is never written and main does not succeed; once
\* main has ended, its status is "Error" and the run log, with the error in
\* it, has been written.
C7_DuplicatePairAborts ==
    DuplicatePair(df1)
        => /\ all_crit = << >>
           /\ results_sr = << >>
           /\ sResultsTxt \notin written
           /\ status # "Success"
           /\ pc \notin {"plot", "summarize"}
           /\ pc = "done" => /\ status = "Error"
                             /\ ErrorLogged
                             /\ sLogTxt \in written

\* main has ended on an EnsembleTable with such two rows
C7_Witness ==
    /\ pc = "done"
    /\ DuplicatePair(df1)
    /\ status = "Error"
    /\ ErrorLogged

-----------------------------------------------------------------------------
(* C8.                                                                     *)

\* C8: no StormGrid is produced in which two rows carry the same integer
\* duration.
C8_NoEqualDurations ==
    \A i \in 1..Len(all_crit) : DistinctDurations(all_crit[i])

\* What the code does with such labels: once main has ended on an
\* EnsembleTable without a duplicate (duration, temporal pattern) pair and
\* without a missing peak flow, it has produced a grid per event and
\* location, whatever the integers of the labels.
C8_GridsProduced ==
    (/\ pc = "done"
     /\ df1 # << >>
     /\ ~ DuplicatePair(df1)
     /\ \A i \in 1..Len(df1.rows) : \A c \in Range(df1.columns) :
           df1.rows[i].flows[c] # << >>)
        => Len(all_crit) > 0

-----------------------------------------------------------------------------
(* C9.                                                                     *)

\* concat_po_srs has returned in main
Concatenated == \E k \in 1..Len(log_file) : log_file[k].k = "df1"

\* the "Max Flow ..." labels of a normalized table: one per "Flow" column,
\* named by the first cell of the column
MaxFlowLabels(t) ==
    {sMaxFlow \o <<" ">> \o t.rows[1][c] :
        c \in {d \in 1..Len(t.columns) : Contains(t.columns[d], sFlow)}}

\* the largest number in the column of table t whose label is label
PeakOf(t, label) ==
    With({c \in 1..Len(t.columns) :
            /\ Contains(t.columns[c], sFlow)
            /\ sMaxFlow \o <<" ">> \o t.rows[1][c] = label}, LAMBDA cs :
    With({int(t.rows[p[1]][p[2]])[1] :
            p \in {q \in (1..Len(t.rows)) \X cs : int(t.rows[q[1]][q[2]]) # << >>}},
         LAMBDA nums :
        IF nums = {} THEN << >> ELSE <<Max(nums)>>))

\* C9: once concat_po_srs has returned in main, the EnsembleTable has one
\* row per normalized table, in the order of the tables, each with the name
\* and the run identity of its table, also when two tables have the same
\* run identity; its columns are the labels of the locations of all the
\* tables, each once; and a row holds the peak flow of its table under the
\* labels of the table and a missing value under the others.
C9_OneRowPerInput ==
    (Concatenated /\ Len(all_max_flows) > 0)
        => /\ Len(df1.rows) = Len(all_max_flows)
           /\ Range(df1.columns) = UNION {MaxFlowLabels(all_max_flows[i]) :
                                             i \in 1..Len(all_max_flows)}
           /\ \A c, d \in 1..Len(df1.columns) : c # d => df1.columns[c] # df1.columns[d]
           /\ \A i \in 1..Len(all_max_flows) :
                 /\ df1.rows[i].run_id = all_max_flows[i].name
                 /\ df1.rows[i].event = parse_run_id(all_max_flows[i].name).storm
                 /\ df1.rows[i].duration = parse_run_id(all_max_flows[i].name).duration
                 /\ df1.rows[i].tp = parse_run_id(all_max_flows[i].name).temp_patt
                 /\ \A c \in Range(df1.columns) :
                       df1.rows[i].flows[c] =
                           IF c \in MaxFlowLabels(all_max_flows[i])
                           THEN PeakOf(all_max_flows[i], c)
                           ELSE << >>

\* an EnsembleTable with two rows of one run identity and with a column
\* that is missing in one row and present in another
C9_Witness ==
    /\ Concatenated
    /\ df1 # << >>
    /\ \E i, j \in 1..Len(df1.rows) :
          /\ i < j
          /\ df1.rows[i].event = df1.rows[j].event
          /\ df1.rows[i].duration = df1.rows[j].duration
          /\ df1.rows[i].tp = df1.rows[j].tp
    /\ \E i, j \in 1..Len(df1.rows) : \E c \in Range(df1.columns) :
          df1.rows[i].flows[c] = << >> /\ df1.rows[j].flows[c] # << >>

-----------------------------------------------------------------------------
(* C10.                                                                    *)

\* the 0-based index of the header row of a raw file: no row above it holds
\* a field "Flow"
IsHeaderIndex(f, h) ==
    /\ h + 1 \in 1..Len(f.rows)
    /\ sFlow \in Range(f.rows[h + 1])
    /\ \A i \in 1..h : sFlow \notin Range(f.rows[i])

\* What parse_po_csv returns: W - 2 columns, and every row but the header row.
C10_OnlyHeaderRowDropped ==
    (pc \in {"returned", "raised", "exited"} /\ csv_file # NoFile)
        => /\ pc = "returned"
           /\ Len(table.columns) = Len(csv_file.rows[1]) - 2
           /\ Len(table.rows) = Len(csv_file.rows) - 1
           /\ Len(table.index) = Len(table.rows)

\* C10: for every raw result file whose header row (the first row holding
\* "Flow") is row h of T rows and whose first row has W fields, parse_po_csv
\* returns a table of W - 2 columns and T - (h + 1) rows: the header row and
\* every junk row above it are dropped.
C10_HeaderAndJunkDropped ==
    (pc \in {"returned", "raised", "exited"} /\ csv_file # NoFile)
        => \A h \in 0..Len(csv_file.rows) :
              IsHeaderIndex(csv_file, h)
                  => /\ pc = "returned"
                     /\ Len(table.columns) = Len(csv_file.rows[1]) - 2
                     /\ Len(table.rows) = Len(csv_file.rows) - (h + 1)

-----------------------------------------------------------------------------
(* C11.                                                                    *)

\* the positions of the columns of table t whose label contains "Flow"
FlowColumnsOf(t) == {c \in 1..Len(t.columns) : Contains(t.columns[c], sFlow)}

\* the cell is a whole number written in digits
IsNumeral(cell) == Len(cell) > 0 /\ \A i \in 1..Len(cell) : cell[i] \in Digits

\* the rows of table t whose cell in column c is a number
NumericRows(t, c) == {r \in 1..Len(t.rows) : IsNumeral(t.rows[r][c])}

\* C11: when _get_all_max_flows returns for a normalized table, its series
\* holds one value per column whose label contains "Flow", in the order of
\* the columns, labelled "Max Flow " and the first cell of the column; the
\* value is a numeric cell of the column that no numeric cell of the column
\* exceeds, and is missing when the column has no numeric cell; and
\* _get_all_max_flows returns for every table that has a row, whatever text
\* or missing cells it holds.
C11_MaxOfNumericCells ==
    /\ pc = "returned"
          => /\ Len(new_row.cols) = Cardinality(FlowColumnsOf(table))
             /\ Len(new_row.vals) = Cardinality(FlowColumnsOf(table))
             /\ \A c \in FlowColumnsOf(table) :
                   \E k \in 1..Len(new_row.cols) :
                       /\ k = Cardinality({d \in FlowColumnsOf(table) : d <= c})
                       /\ new_row.cols[k] = sMaxFlow \o <<" ">> \o table.rows[1][c]
                       /\ IF NumericRows(table, c) = {}
                          THEN new_row.vals[k] = << >>
                          ELSE \E r \in NumericRows(table, c) :
                                  /\ new_row.vals[k] = <<DigitsToInt(table.rows[r][c])>>
                                  /\ \A q \in NumericRows(table, c) :
                                        DigitsToInt(table.rows[q][c])
                                            <= DigitsToInt(table.rows[r][c])
    /\ (pc \in {"returned", "raised"} /\ Len(table.rows) > 0) => pc = "returned"

\* the example of the claim: a column with the values 3, 7, missing, 2
\* under the name of its location gives 7
C11_Witness ==
    /\ pc = "returned"
    /\ Len(table.columns) = 1
    /\ [r \in 1..Len(table.rows) |-> table.rows[r][1]]
          = <<sL1, <<"3">>, <<"7">>, << >>, <<"2">> >>
    /\ new_row.cols = <<sMaxFlow \o <<" ">> \o sL1>>
    /\ new_row.vals = << <<7>> >>

\* a table with two "Flow" columns, one of which has no numeric cell
C11_WitnessMissing ==
    /\ pc = "returned"
    /\ Cardinality(FlowColumnsOf(table)) = 2
    /\ Len(table.columns) = 3
    /\ \E k \in 1..2 : new_row.vals[k] = << >>
    /\ \E k \in 1..2 : new_row.vals[k] # << >>

-----------------------------------------------------------------------------
(* C12.                                                                    *)

\* the kinds of the entries of a log, in the order they were logged
KindsOf(logger) == [k \in 1..Len(logger) |-> logger[k].k]

\* the same, the headings left out
ItemsOf(logger) == SelectSeq(KindsOf(logger), LAMBDA k : k # "text")

IsPrefix(s, t) == Len(s) <= Len(t) /\ s = SubSeq(t, 1, Len(s))

RunLogKinds == <<"text", "saved", "text", "skipped", "df1", "all_crit">>

\* C12 as stated: once main has succeeded, the items of the run log are the
\* ingested files, the skipped files, the EnsembleTable, the StormGrids and
\* the results block, in this order.
C12_ResultsBlockInRunLog ==
    (pc = "done" /\ status = "Success")
        => ItemsOf(log_file) = <<"saved", "skipped", "df1", "all_crit", "results_sr">>

\* C12, amended: as long as no error is logged, the run log holds a prefix
\* of: the ingested files, the skipped files, the EnsembleTable, the
\* StormGrids, under their headings; the results block is logged only after
\* all of these, and to the results log; once main has succeeded, the run
\* log holds the four items with the values main has for them, the results
\* log holds the summaries, and results.txt is written.
C12_RunLogOrder ==
    /\ ~ ErrorLogged => IsPrefix(KindsOf(log_file), RunLogKinds)
    /\ results_file # << >>
          => /\ KindsOf(log_file) = RunLogKinds
             /\ KindsOf(results_file) = <<"text", "results_sr">>
    /\ status = "Success"
          => /\ KindsOf(log_file) = RunLogKinds
             /\ log_file[2].v = [i \in 1..Len(saved_inputs) |-> saved_inputs[i].name]
             /\ Range(log_file[4].v) =
                   {raw_inputs[i].name : i \in 1..Len(raw_inputs)}
                       \ {saved_inputs[i].name : i \in 1..Len(saved_inputs)}
             /\ log_file[5].v = df1
             /\ log_file[6].v = all_crit
             /\ results_file[2].v = results_sr
             /\ sResultsTxt \in written

\* main has succeeded on a folder with a skipped file, and has written both
\* logs
C12_Witness ==
    /\ pc = "done"
    /\ status = "Success"
    /\ Len(log_file) = 6
    /\ Len(log_file[4].v) > 0
    /\ Len(results_file) = 2
    /\ {sResultsTxt, sLogTxt} \subseteq written

-----------------------------------------------------------------------------
(* C13.                                                                    *)

\* read_csv finds no line in the file: pd.errors.EmptyDataError
EmptyData(f) == read_csv(f, 0).kind = "empty"

\* the files of the run in which read_csv finds no line
EmptyDataInputs ==
    {raw_inputs[i].name : i \in {j \in 1..Len(raw_inputs) : EmptyData(raw_inputs[j])}}

\* main has returned: log.txt is written, the status is "Success" or
\* "Error", a run that ended in an error has the error in the run log, a
\* run that ended without one has every file with no line in the list of
\* skipped files of the run log
C13_Ended ==
    /\ pc = "done"
    /\ sLogTxt \in written
    /\ status \in {"Success", "Error"}
    /\ status = "Error" => ErrorLogged
    /\ status = "Success"
          => /\ ~ ErrorLogged
             /\ Len(log_file) >= 4
             /\ log_file[4].k = "skipped"
             /\ EmptyDataInputs \subseteq Range(log_file[4].v)

-----------------------------------------------------------------------------
(* C14.                                                                    *)

\* the location of a "Max Flow <location>" column of the EnsembleTable
LocationOf(column) == SubSeq(column, Len(sMaxFlow) + 2, Len(column))

\* the (event, location) pairs of the EnsembleTable
TaggedPairs ==
    IF df1 = << >> THEN {}
    ELSE {df1.rows[i].event : i \in 1..Len(df1.rows)}
             \X {LocationOf(df1.columns[c]) : c \in 1..Len(df1.columns)}

\* grid i is tagged "<e>: Max Flow <l>"
TaggedAs(i, e, l) == all_crit[i].name = e \o <<":", " ">> \o sMaxFlow \o <<" ">> \o l

\* C14: once every grid is summarized, each grid is tagged
\* "<e>: Max Flow <l>" for an event e and a location l of the EnsembleTable,
\* and its summary has exactly e as Event and exactly l as PO Line.
C14_TagRoundTrip ==
    pc = "returned"
        => \A i \in 1..Len(results_sr) :
              \E p \in TaggedPairs :
                 /\ TaggedAs(i, p[1], p[2])
                 /\ results_sr[i].Event = p[1]
                 /\ results_sr[i].PO_Line = p[2]

\* what the code does instead: the tag is as stated and the event is
\* recovered, the PO Line is the location after a space
C14_LeadingSpaceKept ==
    pc = "returned"
        => \A i \in 1..Len(results_sr) :
              \E p \in TaggedPairs :
                 /\ TaggedAs(i, p[1], p[2])
                 /\ results_sr[i].Event = p[1]
                 /\ results_sr[i].PO_Line = <<" ">> \o p[2]

=============================================================================
